---- MODULE Spec2Model ----
(***************************************************************************)
(* A model of convert_h5_weights.py: the Extractor (extract_h5_weights),   *)
(* the Packer (create_tfjs_weights) and the driver (main).                 *)
(*                                                                         *)
(* Three specifications share the variables:                               *)
(*   SpecExtract  one call of extract_h5_weights on a bounded container    *)
(*   SpecPack     repeated calls of create_tfjs_weights on a bounded       *)
(*                WeightSet and output directory                           *)
(*   Spec         main over its three hardcoded model jobs                 *)
(***************************************************************************)
EXTENDS Integers, Sequences, FiniteSets, TLC

VARIABLES
  h5,            \* the source files: path key -> file node
  fs,            \* the output tree: directory key -> directory node
  pc,            \* control position
  job,           \* main: 1-based index of the next entry of models
  weights,       \* the value of the local `weights` (None or a dict)
  weight_specs,  \* the value last returned by create_tfjs_weights
  console,       \* everything printed so far
  calls,         \* history: the functions invoked, in order
  writes,        \* history: the names handed to f.write by the last Packer call
  runs,          \* SpecPack: Packer calls made so far
  prev           \* SpecPack: what the previous Packer call left behind

vars == <<h5, fs, pc, job, weights, weight_specs, console, calls, writes,
          runs, prev>>

(***************************************************************************)
(* Bounds.                                                                 *)
(***************************************************************************)
MaxDim == 4
MaxRuns == 2

(***************************************************************************)
(* Program constants.                                                      *)
(***************************************************************************)
layer_names == <<"dense", "dense_1", "dense_2", "dense_3">>

weight_order ==
  << "dense/kernel", "dense/bias",
     "dense_1/kernel", "dense_1/bias",
     "dense_2/kernel", "dense_2/bias",
     "dense_3/kernel", "dense_3/bias" >>

BinName == "group1-shard1of1.bin"

Float32ItemSize == 4

Float32MantissaBits == 23

Float32Bias == 127

(***************************************************************************)
(* Numeric arrays.  An array has a dtype, a shape and its elements in      *)
(* row-major order.  Element values are integers (exact reals).            *)
(***************************************************************************)
RECURSIVE Prod(_)
Prod(shape) == IF shape = <<>> THEN 1 ELSE Head(shape) * Prod(Tail(shape))

Abs(v) == IF v < 0 THEN -v ELSE v

RECURSIVE Log2Floor(_)
Log2Floor(n) == IF n <= 1 THEN 0 ELSE 1 + Log2Floor(n \div 2)

\* The float32 nearest to the real v (round half to even), as numpy's cast.
RoundF32(v) ==
  LET a == Abs(v)
      e == Log2Floor(a)
  IN  IF e <= Float32MantissaBits THEN v
      ELSE LET q    == 2 ^ (e - Float32MantissaBits)
               r    == a % q
               down == a - r
               up   == down + q
               near == IF 2 * r < q THEN down
                       ELSE IF 2 * r > q THEN up
                       ELSE IF (down \div q) % 2 = 0 THEN down ELSE up
           IN  IF v < 0 THEN -near ELSE near

\* ndarray.astype(np.float32)
astype_float32(a) ==
  [dtype |-> "float32",
   shape |-> a.shape,
   data  |-> [i \in 1..Len(a.data) |-> RoundF32(a.data[i])]]

ItemSize(dtype) == IF dtype = "float32" THEN Float32ItemSize ELSE 2 * Float32ItemSize

\* ndarray.nbytes
nbytes(a) == Prod(a.shape) * ItemSize(a.dtype)

\* The IEEE-754 binary32 encoding of a float32 value, little-endian.
F32Bytes(v) ==
  IF v = 0 THEN <<0, 0, 0, 0>>
  ELSE LET a == Abs(v)
           e == Log2Floor(a)
           M == IF e <= Float32MantissaBits
                THEN (a - 2 ^ e) * 2 ^ (Float32MantissaBits - e)
                ELSE (a - 2 ^ e) \div 2 ^ (e - Float32MantissaBits)
           E == e + Float32Bias
           s == IF v < 0 THEN 1 ELSE 0
       IN  << M % 256,
              (M \div 256) % 256,
              (E % 2) * 128 + (M \div 65536),
              s * 128 + (E \div 2) >>

RECURSIVE BytesOf(_)
BytesOf(data) ==
  IF data = <<>> THEN <<>> ELSE F32Bytes(Head(data)) \o BytesOf(Tail(data))

\* ndarray.tobytes() of a float32 array
tobytes(a) == BytesOf(a.data)

(***************************************************************************)
(* Python dicts, insertion-ordered: a sequence of [name, value] items with *)
(* distinct names.                                                         *)
(***************************************************************************)
DictHas(d, k) == \E i \in 1..Len(d) : d[i].name = k

DictGet(d, k) == d[CHOOSE i \in 1..Len(d) : d[i].name = k].value

DictSet(d, k, v) ==
  IF DictHas(d, k)
  THEN [i \in 1..Len(d) |-> IF d[i].name = k THEN [name |-> k, value |-> v] ELSE d[i]]
  ELSE Append(d, [name |-> k, value |-> v])

DictKeys(d) == {d[i].name : i \in 1..Len(d)}

\* The local `weights` of main and the value extract_h5_weights returns.
None == [none |-> TRUE, items |-> <<>>]

Some(d) == [none |-> FALSE, items |-> d]

(***************************************************************************)
(* Console lines.                                                          *)
(***************************************************************************)
Line(msg, name, shape, n) == [msg |-> msg, name |-> name, shape |-> shape, n |-> n]

(***************************************************************************)
(* The output tree.  A directory node is the state of one output_path:     *)
(* whether the directory exists, and what sits at bin_path inside it.      *)
(***************************************************************************)
NoDir == [exists |-> FALSE, bin |-> "none", data |-> <<>>]

EmptyDir == [exists |-> TRUE, bin |-> "none", data |-> <<>>]

DirWithBin(bytes) == [exists |-> TRUE, bin |-> "file", data |-> bytes]

BinIsDir == [exists |-> TRUE, bin |-> "dir", data |-> <<>>]

\* open(bin_path, 'ab'): what a Packer that appended would do.
open_ab(node) ==
  IF ~node.exists \/ node.bin = "dir"
  THEN [ok |-> FALSE, node |-> node]
  ELSE [ok |-> TRUE, node |-> DirWithBin(node.data)]

\* open(bin_path, 'wb'): fails when the directory is missing or bin_path is
\* a directory; otherwise creates the file or truncates it to length zero.
open_wb(node) ==
  IF ~node.exists \/ node.bin = "dir"
  THEN [ok |-> FALSE, node |-> node]
  ELSE [ok |-> TRUE, node |-> DirWithBin(<<>>)]

(***************************************************************************)
(* create_tfjs_weights                                                     *)
(***************************************************************************)
\* The loop's locals: the file's bytes, weight_specs, offset, the printed
\* lines and the history of f.write calls.
PackStart(node) ==
  [f |-> node.data, weight_specs |-> <<>>, offset |-> 0, out |-> <<>>, writes |-> <<>>]

\* Faulty variant: offset advances by the source array's nbytes, not the cast one's.
PackOne_SourceNbytes(acc, ws, weight_name) ==
  IF DictHas(ws, weight_name)
  THEN LET weight_data == astype_float32(DictGet(ws, weight_name))
       IN  [f            |-> acc.f \o tobytes(weight_data),
            weight_specs |-> Append(acc.weight_specs,
                                    [name  |-> weight_name,
                                     shape |-> weight_data.shape,
                                     dtype |-> "float32"]),
            out          |-> Append(acc.out,
                                    Line("Written", weight_name,
                                         weight_data.shape, acc.offset)),
            offset       |-> acc.offset + nbytes(DictGet(ws, weight_name)),
            writes       |-> Append(acc.writes, weight_name)]
  ELSE acc

\* Faulty variant: an absent slot is padded with one zero element.
PackOne_PadAbsent(acc, ws, weight_name) ==
  IF DictHas(ws, weight_name)
  THEN LET weight_data == astype_float32(DictGet(ws, weight_name))
       IN  [f            |-> acc.f \o tobytes(weight_data),
            weight_specs |-> Append(acc.weight_specs,
                                    [name  |-> weight_name,
                                     shape |-> weight_data.shape,
                                     dtype |-> "float32"]),
            out          |-> Append(acc.out,
                                    Line("Written", weight_name,
                                         weight_data.shape, acc.offset)),
            offset       |-> acc.offset + nbytes(weight_data),
            writes       |-> Append(acc.writes, weight_name)]
  ELSE [acc EXCEPT !.f = acc.f \o <<0, 0, 0, 0>>,
                   !.offset = acc.offset + Float32ItemSize]

\* Faulty variant: the manifest entry records the source array's dtype.
PackOne_SourceDtype(acc, ws, weight_name) ==
  IF DictHas(ws, weight_name)
  THEN LET weight_data == astype_float32(DictGet(ws, weight_name))
       IN  [f            |-> acc.f \o tobytes(weight_data),
            weight_specs |-> Append(acc.weight_specs,
                                    [name  |-> weight_name,
                                     shape |-> weight_data.shape,
                                     dtype |-> DictGet(ws, weight_name).dtype]),
            out          |-> Append(acc.out,
                                    Line("Written", weight_name,
                                         weight_data.shape, acc.offset)),
            offset       |-> acc.offset + nbytes(weight_data),
            writes       |-> Append(acc.writes, weight_name)]
  ELSE acc

\* One iteration of `for weight_name in weight_order`.
PackOne(acc, ws, weight_name) ==
  IF DictHas(ws, weight_name)
  THEN LET weight_data == astype_float32(DictGet(ws, weight_name))
       IN  [f            |-> acc.f \o tobytes(weight_data),
            weight_specs |-> Append(acc.weight_specs,
                                    [name  |-> weight_name,
                                     shape |-> weight_data.shape,
                                     dtype |-> "float32"]),
            out          |-> Append(acc.out,
                                    Line("Written", weight_name,
                                         weight_data.shape, acc.offset)),
            offset       |-> acc.offset + nbytes(weight_data),
            writes       |-> Append(acc.writes, weight_name)]
  ELSE acc

RECURSIVE PackLoop(_, _, _)
PackLoop(acc, ws, names) ==
  IF names = <<>> THEN acc
  ELSE PackLoop(PackOne(acc, ws, Head(names)), ws, Tail(names))

\* Faulty variant: the loop walks the dict's own (insertion) order.
PackOrder_Insertion(ws) == [i \in 1..Len(ws) |-> ws[i].name]

\* The order the loop walks.
PackOrder(ws) == weight_order

\* The result of create_tfjs_weights(ws, output_path) with `node` at
\* output_path: whether it raised, the node afterwards, the returned
\* weight_specs, the lines printed and the f.write history.
create_tfjs_weights(ws, node) ==
  LET opened == open_wb(node)
  IN  IF ~opened.ok
      THEN [raised |-> TRUE, node |-> node, ret |-> <<>>, out |-> <<>>,
            writes |-> <<>>]
      ELSE LET acc == PackLoop(PackStart(opened.node), ws, PackOrder(ws))
           IN  [raised |-> FALSE,
                node   |-> DirWithBin(acc.f),
                ret    |-> acc.weight_specs,
                out    |-> acc.out \o
                           << Line("Created binary weights file", BinName, <<>>, 0),
                              Line("Total size", "", <<>>, acc.offset) >>,
                writes |-> acc.writes]

(***************************************************************************)
(* HDF5 containers.  A file node is the state of one source path: whether  *)
(* it exists, whether h5py.File can open it, whether visititems runs to    *)
(* the end, whether the root holds `layers`, and the groups under it.      *)
(***************************************************************************)
ContainerLayers == {"dense", "dense_1", "dense_2", "dense_3", "dense_4"}

ScalarZero == [dtype |-> "float32", shape |-> <<1>>, data |-> <<0>>]

NoDataset == [present |-> FALSE, readable |-> FALSE, arr |-> ScalarZero]

Dataset(a) == [present |-> TRUE, readable |-> TRUE, arr |-> a]

\* A dataset whose slice read ([:]) raises.
CorruptDataset(a) == [present |-> TRUE, readable |-> FALSE, arr |-> a]

NoLayer == [present |-> FALSE, hasVars |-> FALSE, v0 |-> NoDataset, v1 |-> NoDataset]

LayerNoVars == [present |-> TRUE, hasVars |-> FALSE, v0 |-> NoDataset, v1 |-> NoDataset]

Layer(d0, d1) == [present |-> TRUE, hasVars |-> TRUE, v0 |-> d0, v1 |-> d1]

NoFile ==
  [exists |-> FALSE, openable |-> FALSE, walkable |-> FALSE, hasLayers |-> FALSE,
   layers |-> [l \in ContainerLayers |-> NoLayer]]

Container(ls) ==
  [exists |-> TRUE, openable |-> TRUE, walkable |-> TRUE, hasLayers |-> TRUE,
   layers |-> ls]

(***************************************************************************)
(* extract_h5_weights                                                      *)
(***************************************************************************)
\* f.visititems(print_structure): one line per node, in name order.
DatasetLines(layer_name, key, ds) ==
  IF ds.present
  THEN << Line("node", "layers/" \o layer_name \o "/vars/" \o key, ds.arr.shape, 0) >>
  ELSE <<>>

LayerLines(layer_name, lg) ==
  IF ~lg.present THEN <<>>
  ELSE << Line("node", "layers/" \o layer_name, <<>>, 0) >>
       \o (IF lg.hasVars
           THEN << Line("node", "layers/" \o layer_name \o "/vars", <<>>, 0) >>
                \o DatasetLines(layer_name, "0", lg.v0)
                \o DatasetLines(layer_name, "1", lg.v1)
           ELSE <<>>)

print_structure(node) ==
  IF ~node.hasLayers THEN <<>>
  ELSE << Line("node", "layers", <<>>, 0) >>
       \o LayerLines("dense", node.layers["dense"])
       \o LayerLines("dense_1", node.layers["dense_1"])
       \o LayerLines("dense_2", node.layers["dense_2"])
       \o LayerLines("dense_3", node.layers["dense_3"])
       \o LayerLines("dense_4", node.layers["dense_4"])

\* The try block's locals: the dict built so far, the lines printed, and
\* whether an exception has been raised inside the block.
ExtractStart == [weights |-> <<>>, out |-> <<>>, failed |-> FALSE]

\* `if key in vars_group: x = vars_group[key][:]; weights[name] = x; print`
ExtractVar(acc, ds, name) ==
  IF acc.failed \/ ~ds.present THEN acc
  ELSE IF ~ds.readable THEN [acc EXCEPT !.failed = TRUE]
  ELSE [acc EXCEPT !.weights = DictSet(acc.weights, name, ds.arr),
                   !.out = Append(acc.out, Line("Extracted", name, ds.arr.shape, 0))]

\* Faulty variant: the bias is read only inside the kernel's branch.
ExtractLayer_BiasUnderKernel(acc, layers_root, layer_name) ==
  LET layer_group == layers_root[layer_name]
  IN  IF acc.failed \/ ~layer_group.present \/ ~layer_group.hasVars THEN acc
      ELSE IF ~layer_group.v0.present THEN acc
      ELSE ExtractVar(ExtractVar(acc, layer_group.v0, layer_name \o "/kernel"),
                      layer_group.v1, layer_name \o "/bias")

\* One iteration of `for layer_name in layer_names`.
ExtractLayer(acc, layers_root, layer_name) ==
  LET layer_group == layers_root[layer_name]
  IN  IF acc.failed \/ ~layer_group.present \/ ~layer_group.hasVars THEN acc
      ELSE ExtractVar(ExtractVar(acc, layer_group.v0, layer_name \o "/kernel"),
                      layer_group.v1, layer_name \o "/bias")

RECURSIVE ExtractLoop(_, _, _)
ExtractLoop(acc, layers_root, names) ==
  IF names = <<>> THEN acc
  ELSE ExtractLoop(ExtractLayer(acc, layers_root, Head(names)), layers_root, Tail(names))

\* The try block: f['layers'] raises KeyError without the group; any
\* exception inside the block prints the error and returns None.
ExtractTry(node) ==
  IF ~node.hasLayers THEN [ExtractStart EXCEPT !.failed = TRUE]
  ELSE ExtractLoop(ExtractStart, node.layers, layer_names)

\* The result of extract_h5_weights(h5_file_path) with `node` at the path:
\* whether an exception left the function, the value returned and the lines
\* printed.  h5py.File and f.visititems run outside the try block.
extract_h5_weights(node) ==
  IF ~node.exists \/ ~node.openable
  THEN [raised |-> TRUE, ret |-> None, out |-> <<>>]
  ELSE IF ~node.walkable
  THEN [raised |-> TRUE, ret |-> None,
        out |-> << Line("H5 file structure", "", <<>>, 0) >>]
  ELSE LET acc  == ExtractTry(node)
           head == << Line("H5 file structure", "", <<>>, 0) >> \o print_structure(node)
       IN  IF acc.failed
           THEN [raised |-> FALSE, ret |-> None,
                 out |-> head \o acc.out
                         \o << Line("Error extracting weights", "", <<>>, 0) >>]
           ELSE [raised |-> FALSE, ret |-> Some(acc.weights), out |-> head \o acc.out]

(***************************************************************************)
(* Bounded inputs.  Variant d in 1..MaxDim fixes the widths of a four-layer*)
(* dense network; slot s of weight_order then has the shape, dtype and     *)
(* elements below.  Variant MaxDim gives dense/kernel (4,3), dense/bias    *)
(* (3,).  float64 sources hold values float32 cannot represent.            *)
(***************************************************************************)
Slots == 1..Len(weight_order)

Width(k, d) == 1 + ((d - 1 + Len(layer_names) - k) % MaxDim)

SlotShape(s, d) ==
  LET k == (s + 1) \div 2
  IN  IF s % 2 = 1 THEN <<Width(k - 1, d), Width(k, d)>> ELSE <<Width(k, d)>>

SlotDtype(s, d) == IF (s + d) % 2 = 0 THEN "float64" ELSE "float32"

Values(dtype) ==
  IF dtype = "float64" THEN <<16777217, -3, 16777219, 5, -33554435>>
  ELSE <<0, 1, -2, 3, 16777216>>

SlotArray(s, d) ==
  LET dt == SlotDtype(s, d)
      sh == SlotShape(s, d)
  IN  [dtype |-> dt,
       shape |-> sh,
       data  |-> [i \in 1..Prod(sh) |->
                    Values(dt)[((i + s + d) % Len(Values(dt))) + 1]]]

\* The dict holding the slots of S, inserted in weight_order.
RECURSIVE SlotDict(_, _, _)
SlotDict(S, d, s) ==
  IF s > Len(weight_order) THEN <<>>
  ELSE (IF s \in S THEN <<[name |-> weight_order[s], value |-> SlotArray(s, d)]>>
        ELSE <<>>)
       \o SlotDict(S, d, s + 1)

OldData == <<255, 255, 255>>

PackDir == "out"

PackNodes == {NoDir, EmptyDir, DirWithBin(OldData), BinIsDir}

Reverse(q) == [i \in 1..Len(q) |-> q[Len(q) + 1 - i]]

Rotate(q) == IF q = <<>> THEN q ELSE Append(Tail(q), Head(q))

(***************************************************************************)
(* SpecPack: create_tfjs_weights called up to MaxRuns times on one         *)
(* WeightSet and one output directory; between calls the caller may        *)
(* rebuild the dict with its items in another insertion order.             *)
(***************************************************************************)
InitPack ==
  /\ h5 = <<>>
  /\ \E node \in PackNodes : fs = [p \in {PackDir} |-> node]
  /\ pc = "call"
  /\ job = 0
  /\ \E S \in SUBSET Slots, d \in 1..MaxDim : weights = Some(SlotDict(S, d, 1))
  /\ weight_specs = <<>>
  /\ console = <<>>
  /\ calls = <<>>
  /\ writes = <<>>
  /\ runs = 0
  /\ prev = [node |-> NoDir, ret |-> <<>>, raised |-> FALSE]

Pack ==
  /\ runs < MaxRuns
  /\ \E r \in {create_tfjs_weights(weights.items, fs[PackDir])} :
         /\ prev' = [node |-> fs[PackDir], ret |-> weight_specs,
                     raised |-> (pc = "raised")]
         /\ fs' = [fs EXCEPT ![PackDir] = r.node]
         /\ pc' = IF r.raised THEN "raised" ELSE "returned"
         /\ weight_specs' = r.ret
         /\ console' = r.out
         /\ writes' = r.writes
         /\ calls' = Append(calls, [fn |-> "create_tfjs_weights",
                                    outcome |-> IF r.raised THEN "raised" ELSE "returned",
                                    keys |-> [i \in 1..Len(weights.items) |->
                                                weights.items[i].name]])
         /\ runs' = runs + 1
  /\ UNCHANGED <<h5, job, weights>>

\* Between two calls the caller rebuilds the dict from the same items in
\* another insertion order: weight_order's, its reverse, or rotated by one.
Reinsert(items) ==
  LET present == SelectSeq(weight_order, LAMBDA n : DictHas(items, n))
  IN  [i \in 1..Len(present) |-> [name |-> present[i], value |-> DictGet(items, present[i])]]

Reorder(items) ==
  /\ runs >= 1
  /\ runs < MaxRuns
  /\ items # weights.items
  /\ weights' = Some(items)
  /\ UNCHANGED <<h5, fs, pc, job, weight_specs, console, calls, writes, runs, prev>>

ReorderCanonical == Reorder(Reinsert(weights.items))

ReorderReverse == Reorder(Reverse(Reinsert(weights.items)))

ReorderRotate == Reorder(Rotate(Reinsert(weights.items)))

NextPack == Pack \/ ReorderCanonical \/ ReorderReverse \/ ReorderRotate

SpecPack == InitPack /\ [][NextPack]_vars

(***************************************************************************)
(* SpecExtract: one call of extract_h5_weights on a bounded container.     *)
(***************************************************************************)
DatasetChoices(s, d) ==
  {NoDataset, Dataset(SlotArray(s, d)), CorruptDataset(SlotArray(s, d))}

LayerChoices(k, d) ==
  {NoLayer, LayerNoVars}
  \cup {Layer(d0, d1) : d0 \in DatasetChoices(2 * k - 1, d),
                        d1 \in DatasetChoices(2 * k, d)}

\* A layer outside layer_names, as a container of a deeper network holds.
ExtraLayerChoices(d) ==
  {NoLayer, Layer(Dataset(SlotArray(1, d)), Dataset(SlotArray(2, d)))}

Containers(d) ==
  {Container([l \in ContainerLayers |->
                CASE l = "dense"   -> l1
                  [] l = "dense_1" -> l2
                  [] l = "dense_2" -> l3
                  [] l = "dense_3" -> l4
                  [] OTHER         -> l5]) :
     l1 \in LayerChoices(1, d), l2 \in LayerChoices(2, d),
     l3 \in LayerChoices(3, d), l4 \in LayerChoices(4, d),
     l5 \in ExtraLayerChoices(d)}

FullContainer(d) ==
  Container([l \in ContainerLayers |->
               CASE l = "dense"   -> Layer(Dataset(SlotArray(1, d)), Dataset(SlotArray(2, d)))
                 [] l = "dense_1" -> Layer(Dataset(SlotArray(3, d)), Dataset(SlotArray(4, d)))
                 [] l = "dense_2" -> Layer(Dataset(SlotArray(5, d)), Dataset(SlotArray(6, d)))
                 [] l = "dense_3" -> Layer(Dataset(SlotArray(7, d)), Dataset(SlotArray(8, d)))
                 [] OTHER         -> NoLayer])

\* A file h5py.File cannot open (not HDF5, truncated, unreadable).
Unopenable == [NoFile EXCEPT !.exists = TRUE]

\* A container on which the diagnostic walk raises.
Unwalkable(d) == [FullContainer(d) EXCEPT !.walkable = FALSE]

\* A container whose root holds no `layers` group.
NoLayersGroup == [Unopenable EXCEPT !.openable = TRUE, !.walkable = TRUE]

ExtractPath == "in"

ExtractNodes(d) ==
  {NoFile, Unopenable, Unwalkable(d), NoLayersGroup} \cup Containers(d)

InitExtract ==
  /\ \E d \in 1..MaxDim : \E node \in ExtractNodes(d) : h5 = [p \in {ExtractPath} |-> node]
  /\ fs = <<>>
  /\ pc = "call"
  /\ job = 0
  /\ weights = None
  /\ weight_specs = <<>>
  /\ console = <<>>
  /\ calls = <<>>
  /\ writes = <<>>
  /\ runs = 0
  /\ prev = <<>>

Extract ==
  /\ pc = "call"
  /\ \E r \in {extract_h5_weights(h5[ExtractPath])} :
       /\ pc' = IF r.raised THEN "raised" ELSE "returned"
       /\ weights' = r.ret
       /\ console' = r.out
  /\ UNCHANGED <<h5, fs, job, weight_specs, calls, writes, runs, prev>>

NextExtract == Extract

SpecExtract == InitExtract /\ [][NextExtract]_vars

(***************************************************************************)
(* main                                                                    *)
(***************************************************************************)
models ==
  << [name |-> "ddpg", path |-> "best_actor_ddpg.weights.h5"],
     [name |-> "td3",  path |-> "best_actor.weights.h5"],
     [name |-> "sac",  path |-> "best_actor_sac.weights.h5"] >>

ModelNames == {models[j].name : j \in 1..Len(models)}

ModelPaths == {models[j].path : j \in 1..Len(models)}

\* str.upper() on the model identifiers
upper(name) ==
  CASE name = "ddpg" -> "DDPG"
    [] name = "td3"  -> "TD3"
    [] name = "sac"  -> "SAC"
    [] OTHER         -> name

\* os.makedirs(output_path, exist_ok=True)
makedirs(node) == IF node.exists THEN node ELSE EmptyDir

\* The sources a job may find at its path; job j uses variant MaxDim + 1 - j.
EmptyContainer == [NoLayersGroup EXCEPT !.hasLayers = TRUE]

PartialContainer(d) ==
  Container([l \in ContainerLayers |->
               IF l = "dense"
               THEN Layer(Dataset(SlotArray(1, d)), Dataset(SlotArray(2, d)))
               ELSE NoLayer])

CorruptContainer(d) ==
  Container([l \in ContainerLayers |->
               CASE l = "dense"   -> Layer(Dataset(SlotArray(1, d)), Dataset(SlotArray(2, d)))
                 [] l = "dense_1" -> Layer(CorruptDataset(SlotArray(3, d)), NoDataset)
                 [] OTHER         -> NoLayer])

JobSources(j) ==
  LET d == MaxDim + 1 - j
  IN  {NoFile, Unopenable, Unwalkable(d), NoLayersGroup, EmptyContainer,
       PartialContainer(d), CorruptContainer(d), FullContainer(d)}

MainNodes == {NoDir, DirWithBin(OldData), BinIsDir}

Init ==
  /\ \E s1 \in JobSources(1), s2 \in JobSources(2), s3 \in JobSources(3) :
       h5 = [p \in ModelPaths |->
               IF p = models[1].path THEN s1
               ELSE IF p = models[2].path THEN s2 ELSE s3]
  /\ fs \in [ModelNames -> MainNodes]
  /\ pc = "main"
  /\ job = 1
  /\ weights = None
  /\ weight_specs = <<>>
  /\ console = <<>>
  /\ calls = <<>>
  /\ writes = <<>>
  /\ runs = 0
  /\ prev = fs

model_name == models[job].name

h5_path == models[job].path

Banner == Line("=== Converting model ===", upper(model_name), <<>>, 0)

Call(fn, outcome) == [fn |-> fn, model |-> model_name, outcome |-> outcome]

\* The loop moves to the next entry; after the last one main returns.
Continue ==
  /\ job' = job + 1
  /\ pc' = IF job = Len(models) THEN "done" ELSE "main"

\* Faulty variant: the output directory is made before the source path is tested.
SkipMissing_MakesDir ==
  /\ pc = "main"
  /\ ~h5[h5_path].exists
  /\ fs' = [fs EXCEPT ![model_name] = makedirs(fs[model_name])]
  /\ console' = console \o << Banner, Line("Warning: not found, skipping", h5_path, <<>>, 0) >>
  /\ Continue
  /\ UNCHANGED <<h5, weights, weight_specs, calls, writes, runs, prev>>

\* `if not os.path.exists(h5_path): print(...); continue`
SkipMissing ==
  /\ pc = "main"
  /\ ~h5[h5_path].exists
  /\ console' = console \o << Banner, Line("Warning: not found, skipping", h5_path, <<>>, 0) >>
  /\ Continue
  /\ UNCHANGED <<h5, fs, weights, weight_specs, calls, writes, runs, prev>>

\* extract_h5_weights raises: nothing in main catches it, main ends there.
ExtractRaises ==
  /\ pc = "main"
  /\ h5[h5_path].exists
  /\ \E r \in {extract_h5_weights(h5[h5_path])} :
       /\ r.raised
       /\ console' = console \o <<Banner>> \o r.out
       /\ calls' = Append(calls, Call("extract_h5_weights", "raised"))
  /\ pc' = "crashed"
  /\ UNCHANGED <<h5, fs, job, weights, weight_specs, writes, runs, prev>>

\* `if weights is None: print(...); continue`
ExtractFailed ==
  /\ pc = "main"
  /\ h5[h5_path].exists
  /\ \E r \in {extract_h5_weights(h5[h5_path])} :
       /\ ~r.raised
       /\ r.ret.none
       /\ weights' = r.ret
       /\ console' = console \o <<Banner>> \o r.out
                     \o << Line("Failed to extract weights", h5_path, <<>>, 0) >>
       /\ calls' = Append(calls, Call("extract_h5_weights", "None"))
  /\ Continue
  /\ UNCHANGED <<h5, fs, weight_specs, writes, runs, prev>>

\* Extraction returned a dict: make the directory, pack, report success.
Convert ==
  /\ pc = "main"
  /\ h5[h5_path].exists
  /\ \E r \in {extract_h5_weights(h5[h5_path])} :
       /\ ~r.raised
       /\ ~r.ret.none
       /\ \E p \in {create_tfjs_weights(r.ret.items, makedirs(fs[model_name]))} :
            /\ ~p.raised
            /\ weights' = r.ret
            /\ fs' = [fs EXCEPT ![model_name] = p.node]
            /\ weight_specs' = p.ret
            /\ writes' = p.writes
            /\ console' = console \o <<Banner>> \o r.out \o p.out
                          \o << Line("Successfully converted", model_name, <<>>, 0),
                                Line("Weights saved to", model_name, <<>>, 0) >>
            /\ calls' = calls
                        \o << Call("extract_h5_weights",
                                   IF r.ret.items = <<>> THEN "empty" ELSE "dict"),
                              Call("makedirs", "returned"),
                              Call("create_tfjs_weights", "returned") >>
  /\ Continue
  /\ UNCHANGED <<h5, runs, prev>>

\* create_tfjs_weights raises: nothing in main catches it, main ends there.
PackRaises ==
  /\ pc = "main"
  /\ h5[h5_path].exists
  /\ \E r \in {extract_h5_weights(h5[h5_path])} :
       /\ ~r.raised
       /\ ~r.ret.none
       /\ \E p \in {create_tfjs_weights(r.ret.items, makedirs(fs[model_name]))} :
            /\ p.raised
            /\ weights' = r.ret
            /\ fs' = [fs EXCEPT ![model_name] = p.node]
            /\ console' = console \o <<Banner>> \o r.out \o p.out
            /\ calls' = calls
                        \o << Call("extract_h5_weights",
                                   IF r.ret.items = <<>> THEN "empty" ELSE "dict"),
                              Call("makedirs", "returned"),
                              Call("create_tfjs_weights", "raised") >>
  /\ pc' = "crashed"
  /\ UNCHANGED <<h5, job, weight_specs, writes, runs, prev>>

Next == SkipMissing \/ ExtractRaises \/ ExtractFailed \/ Convert \/ PackRaises

Spec == Init /\ [][Next]_vars

(***************************************************************************)
(* Properties of create_tfjs_weights (SpecPack).                           *)
(***************************************************************************)
Packed == runs >= 1 /\ pc = "returned"

OutNode == fs[PackDir]

\* The slots present in a dict, in weight_order.
PresentSlots(items) == SelectSeq(weight_order, LAMBDA n : DictHas(items, n))

RECURSIVE ConcatTensors(_, _)
ConcatTensors(items, names) ==
  IF names = <<>> THEN <<>>
  ELSE tobytes(astype_float32(DictGet(items, Head(names))))
       \o ConcatTensors(items, Tail(names))

\* C1: after a Packer call returns, the tensors written are exactly those
\* whose names are in the WeightSet, in the fixed 8-slot order, and the file
\* is their concatenation with nothing for an absent slot; a call on an
\* existing directory whose bin_path is free or a file never raises.
C1_FixedOrderNoPadding ==
  /\ Packed =>
       /\ writes = PresentSlots(weights.items)
       /\ OutNode.bin = "file"
       /\ OutNode.data = ConcatTensors(weights.items, PresentSlots(weights.items))
  /\ (runs >= 1 /\ prev.node.exists /\ prev.node.bin # "dir") => pc = "returned"

\* dense_2 is absent, the other three layers are whole: six tensors written.
C1_Witness ==
  /\ Packed
  /\ DictKeys(weights.items) =
       {"dense/kernel", "dense/bias", "dense_1/kernel", "dense_1/bias",
        "dense_3/kernel", "dense_3/bias"}
  /\ Len(writes) = 6
  /\ OutNode.data # <<>>

WrittenLines == SelectSeq(console, LAMBDA l : l.msg = "Written")

TotalLines == SelectSeq(console, LAMBDA l : l.msg = "Total size")

ElementCount(name) == Len(DictGet(weights.items, name).data)

RECURSIVE ElementsBefore(_, _)
ElementsBefore(names, i) ==
  IF i <= 1 THEN 0 ELSE ElementCount(names[i - 1]) + ElementsBefore(names, i - 1)

\* C8: the offset reported for each written tensor is 4 times the element
\* count of the tensors written before it, and the reported total equals
\* the file's length, 4 times the element count of all written tensors.
C8_OffsetsAndTotal ==
  Packed =>
    \E names \in {PresentSlots(weights.items)} :
      /\ Len(WrittenLines) = Len(names)
      /\ \A i \in 1..Len(names) :
           /\ WrittenLines[i].name = names[i]
           /\ WrittenLines[i].n = 4 * ElementsBefore(names, i)
      /\ Len(TotalLines) = 1
      /\ TotalLines[1].n = Len(OutNode.data)
      /\ Len(OutNode.data) = 4 * ElementsBefore(names, Len(names) + 1)

\* dense/kernel (4,3) and dense/bias (3,) alone: 60 bytes, bias at offset 48.
C8_Witness ==
  /\ Packed
  /\ DictKeys(weights.items) = {"dense/kernel", "dense/bias"}
  /\ DictGet(weights.items, "dense/kernel").shape = <<4, 3>>
  /\ DictGet(weights.items, "dense/bias").shape = <<3>>
  /\ Len(OutNode.data) = 60
  /\ TotalLines[1].n = 60
  /\ WrittenLines[2].n = 48

\* C9: the returned WeightSpec sequence has one entry per tensor written,
\* in write order, each with the tensor's name, its shape and dtype float32;
\* a slot absent from the WeightSet has no entry.
C9_SpecPerWrittenTensor ==
  Packed =>
    /\ Len(weight_specs) = Len(writes)
    /\ Len(weight_specs) = Cardinality(DictKeys(weights.items))
    /\ \A i \in 1..Len(weight_specs) :
         /\ weight_specs[i].name = writes[i]
         /\ weight_specs[i].shape = DictGet(weights.items, writes[i]).shape
         /\ weight_specs[i].dtype = "float32"
    /\ \A s \in Slots :
         ~DictHas(weights.items, weight_order[s]) =>
           \A i \in 1..Len(weight_specs) : weight_specs[i].name # weight_order[s]

\* The example: two entries, the bias's source being float64.
C9_Witness ==
  /\ Packed
  /\ DictKeys(weights.items) = {"dense/kernel", "dense/bias"}
  /\ DictGet(weights.items, "dense/bias").dtype = "float64"
  /\ weight_specs = << [name |-> "dense/kernel", shape |-> <<4, 3>>, dtype |-> "float32"],
                       [name |-> "dense/bias", shape |-> <<3>>, dtype |-> "float32"] >>

\* C10: a second Packer call on the same WeightSet and directory leaves the
\* same bytes and returns the same WeightSpec sequence as the first,
\* whatever the insertion order of the dict at either call; and the bytes
\* of any call are those a call on a fresh directory gives.
C10_RerunIdentical ==
  /\ (runs >= 2 /\ pc = "returned" /\ ~prev.raised) =>
       /\ OutNode = prev.node
       /\ weight_specs = prev.ret
  /\ Packed => OutNode = create_tfjs_weights(Reinsert(weights.items), EmptyDir).node

\* Two calls returned, the first over old bytes, with different insertion
\* orders of a dict of at least three tensors.
C10_Witness ==
  /\ runs = 2
  /\ pc = "returned"
  /\ ~prev.raised
  /\ calls[1].keys # calls[2].keys
  /\ Len(calls[2].keys) >= 3
  /\ OutNode.data # <<>>
  /\ OutNode = prev.node

\* C6 as stated: called with a directory that does not exist, the Packer
\* creates it and writes the file there; called with a directory holding
\* the file, it overwrites the file.
C6_PackerCreatesDirectory ==
  /\ (runs = 1 /\ ~prev.node.exists) =>
       /\ pc = "returned"
       /\ OutNode.exists
       /\ OutNode.bin = "file"
  /\ (runs = 1 /\ prev.node.bin = "file") =>
       /\ pc = "returned"
       /\ OutNode = DirWithBin(ConcatTensors(weights.items, PresentSlots(weights.items)))

\* C6 amended: called with a directory that does not exist, the Packer
\* raises and creates neither the directory nor the file; called with a
\* directory holding the file, it replaces the file's content.
C6_PackerNeedsDirectory ==
  /\ (runs = 1 /\ ~prev.node.exists) =>
       /\ pc = "raised"
       /\ OutNode = NoDir
       /\ weight_specs = <<>>
  /\ (runs = 1 /\ prev.node.bin = "file") =>
       /\ pc = "returned"
       /\ OutNode = DirWithBin(ConcatTensors(weights.items, PresentSlots(weights.items)))

\* A call on a missing directory has raised, with tensors to write.
C6_Witness ==
  /\ runs = 1
  /\ prev.node = NoDir
  /\ pc = "raised"
  /\ Len(weights.items) = Len(weight_order)
  /\ OutNode = NoDir

(***************************************************************************)
(* Properties of extract_h5_weights (SpecExtract).                         *)
(***************************************************************************)
Source == h5[ExtractPath]

FixedLayers == {layer_names[i] : i \in 1..Len(layer_names)}

\* The datasets the Extractor's loop would read: vars/0 and vars/1 of the
\* present fixed layers that have a vars subgroup.
HasVar(node, l, key) ==
  /\ l \in FixedLayers
  /\ node.layers[l].present
  /\ node.layers[l].hasVars
  /\ IF key = "0" THEN node.layers[l].v0.present ELSE node.layers[l].v1.present

VarOf(node, l, key) == IF key = "0" THEN node.layers[l].v0 ELSE node.layers[l].v1

ReadError(node) ==
  \E l \in FixedLayers, key \in {"0", "1"} :
    HasVar(node, l, key) /\ ~VarOf(node, l, key).readable

\* C7: for a container with a top-level group `layers` and no read error,
\* the Extractor returns a dict that holds '<layer>/kernel' exactly when
\* <layer> is one of the four fixed layers, is present, has `vars` and vars
\* has "0", and '<layer>/bias' exactly when the same holds with "1"; each
\* entry is the dataset's array; nothing else is in the dict; a result with
\* zero entries is an empty dict, not None.
C7_ExtractedEntries ==
  (/\ pc # "call"
   /\ Source.exists /\ Source.openable /\ Source.walkable
   /\ Source.hasLayers
   /\ ~ReadError(Source)) =>
    /\ pc = "returned"
    /\ ~weights.none
    /\ \A l \in ContainerLayers :
         /\ DictHas(weights.items, l \o "/kernel") <=> HasVar(Source, l, "0")
         /\ DictHas(weights.items, l \o "/bias") <=> HasVar(Source, l, "1")
         /\ HasVar(Source, l, "0") =>
              DictGet(weights.items, l \o "/kernel") = Source.layers[l].v0.arr
         /\ HasVar(Source, l, "1") =>
              DictGet(weights.items, l \o "/bias") = Source.layers[l].v1.arr
    /\ Len(weights.items) = Cardinality(DictKeys(weights.items))
    /\ DictKeys(weights.items) \subseteq
         {l \o "/kernel" : l \in FixedLayers} \cup {l \o "/bias" : l \in FixedLayers}

\* A bias without its kernel, a kernel without its bias, a layer without
\* vars, an absent layer and a layer outside the fixed four.
C7_Witness ==
  /\ pc = "returned"
  /\ ~weights.none
  /\ DictKeys(weights.items) = {"dense/bias", "dense_1/kernel"}
  /\ Source.layers["dense_2"] = LayerNoVars
  /\ ~Source.layers["dense_3"].present
  /\ Source.layers["dense_4"].present

\* C4: any exception during extract_h5_weights (opening the container, the
\* diagnostic walk, reading a layer's kernel or bias) makes it return None;
\* the exception never reaches the caller.
C4_AnyExceptionReturnsNone ==
  (/\ pc # "call"
   /\ Source.exists
   /\ \/ ~Source.openable
      \/ ~Source.walkable
      \/ ~Source.hasLayers
      \/ ReadError(Source)) =>
    /\ pc = "returned"
    /\ weights = None

(***************************************************************************)
(* Properties of main (Spec).  prev is the output tree as main found it.   *)
(***************************************************************************)
Ended == pc \in {"done", "crashed"}

Printed(msg, name) == \E i \in 1..Len(console) : console[i].msg = msg /\ console[i].name = name

Called(fn, name) == \E i \in 1..Len(calls) : calls[i].fn = fn /\ calls[i].model = name

\* C2: when main has ended, every entry of models has been processed,
\* whatever failed in an earlier entry.
C2_EveryEntryProcessed ==
  Ended => \A j \in 1..Len(models) :
             Printed("=== Converting model ===", upper(models[j].name))

\* C3: a job whose extraction returns a dict with zero entries is treated
\* as failed: no output directory or binary file is made for it and it is
\* not reported as converted.
C3_EmptyExtractionFails ==
  \A i \in 1..Len(calls) :
    (calls[i].fn = "extract_h5_weights" /\ calls[i].outcome = "empty") =>
      /\ fs[calls[i].model] = prev[calls[i].model]
      /\ ~Called("makedirs", calls[i].model)
      /\ ~Called("create_tfjs_weights", calls[i].model)
      /\ ~Printed("Successfully converted", calls[i].model)

\* C5: a job whose source path does not exist is skipped: neither the
\* Extractor nor the Packer is invoked for it and its output directory is
\* left as it was (none is created), whatever happens to the other jobs.
C5_MissingSourceSkipped ==
  \A j \in 1..Len(models) :
    ~h5[models[j].path].exists =>
      /\ fs[models[j].name] = prev[models[j].name]
      /\ ~Called("extract_h5_weights", models[j].name)
      /\ ~Called("makedirs", models[j].name)
      /\ ~Called("create_tfjs_weights", models[j].name)

\* main has ended; the second job's source was missing and it had no output
\* directory; the jobs before and after it were converted.
C5_Witness ==
  /\ pc = "done"
  /\ ~h5[models[2].path].exists
  /\ prev[models[2].name] = NoDir
  /\ fs[models[2].name] = NoDir
  /\ Printed("Warning: not found, skipping", models[2].path)
  /\ Printed("Successfully converted", models[1].name)
  /\ Printed("Successfully converted", models[3].name)

====
